---- MODULE Spec2Model ----
(***************************************************************************)
(* Polynomial least-squares regression (src/main.py).                      *)
(*                                                                         *)
(* least_squares_polynomial assembles the normal equations A.k = B from    *)
(* power sums of the data and returns dot(inv(A), B); get_point evaluates  *)
(* a coefficient vector at x; coefficients_to_string renders it.           *)
(*                                                                         *)
(* Arithmetic.  Python integers are exact.  The float64 values of the      *)
(* coefficient vector are modelled by the exact rationals they             *)
(* approximate ([n, d] in lowest terms, d > 0).  numpy.linalg.inv is       *)
(* LAPACK's LU factorisation with partial pivoting; it raises LinAlgError  *)
(* exactly when a pivot is 0.0.  A pivot whose exact value is 0 but which  *)
(* was computed through a rounded operation is 0.0 or a tiny non-zero      *)
(* number depending on the rounding of the BLAS build (division or         *)
(* reciprocal scaling, fused or separate multiply-add), so for such a      *)
(* matrix inv either raises or returns a matrix of meaningless entries     *)
(* (Garbage, written [n |-> 1, d |-> 0]).                                   *)
(***************************************************************************)
EXTENDS Integers, Sequences, FiniteSets, TLC

VARIABLES
    data,       \* the point sequence passed to least_squares_polynomial
    N,          \* the order passed to least_squares_polynomial
    pc,         \* "call" before the fit, "done" after it, "evaluated" after get_point,
                \* "idle" when the caller only formats
    A,          \* local A of least_squares_polynomial ((N+1)x(N+1), 0-based)
    B,          \* local B of least_squares_polynomial (column vector, 0-based)
    outcome,    \* "none", "returned", "ValueError" or "LinAlgError"
    coeffs,     \* the returned coefficient vector (0-based, rationals)
    evalX,      \* argument x of the last get_point call
    evalY,      \* value returned by the last get_point call
    polynomial_coefficients, \* argument of coefficients_to_string (0-based, in thirds)
    round_to,   \* argument round_to of coefficients_to_string
    fpc,        \* "call" before coefficients_to_string, "done" after it,
                \* "idle" when the caller only fits
    foutcome,   \* "none", "returned" or "IndexError"
    y           \* the string coefficients_to_string returns (sequence of characters)

vars == <<data, N, pc, A, B, outcome, coeffs, evalX, evalY,
          polynomial_coefficients, round_to, fpc, foutcome, y>>

fitVars == <<data, N, pc, A, B, outcome, coeffs, evalX, evalY>>
fmtVars == <<polynomial_coefficients, round_to, fpc, foutcome, y>>

----------------------------------------------------------------------------
(* Bounds of the model. *)

MaxPts == 3        \* at most this many points in data
MaxX == 2          \* x coordinates range over -MaxX..1
MaxY == 1          \* y coordinates range over 0..MaxY
MaxOrder == 2      \* orders range over -2..MaxOrder

Xs == (0 - MaxX)..1
Ys == 0..MaxY
Points == {<<px, py>> : px \in Xs, py \in Ys}
Orders == (0 - 2)..MaxOrder

(* data is a list of points; the sums of the fit run over it in list order *)
(* and exact sums do not depend on that order, so one list per multiset    *)
(* (the non-decreasing one) is enumerated.                                 *)
PointLeq(p, q) == p[1] < q[1] \/ (p[1] = q[1] /\ p[2] <= q[2])
Datasets ==
    UNION {{s \in [1..m -> Points] :
                \A i \in 1..(m - 1) : PointLeq(s[i], s[i + 1])} : m \in 0..MaxPts}

----------------------------------------------------------------------------
(* Integer and rational helpers. *)

Abs(v) == IF v < 0 THEN 0 - v ELSE v

RECURSIVE Pow(_, _)
(* Python's x ** p for integers, p >= 0; 0 ** 0 is 1 *)
Pow(x, p) == IF p = 0 THEN 1 ELSE x * Pow(x, p - 1)

RECURSIVE Gcd(_, _)
Gcd(a, b) == IF b = 0 THEN a ELSE Gcd(b, a % b)

Garbage == [n |-> 1, d |-> 0]
IsGarbage(q) == q.d = 0

(* the rational a/b, b # 0, in lowest terms with a positive denominator *)
Rat(a, b) ==
    LET g == Gcd(Abs(a), Abs(b))
        s == IF b < 0 THEN 0 - 1 ELSE 1
    IN  [n |-> (s * a) \div g, d |-> (s * b) \div g]

RInt(a) == [n |-> a, d |-> 1]

(* least common multiple of the positive integers a and b *)
Lcm(a, b) == (a \div Gcd(a, b)) * b

(* sums and products, reduced before multiplying to keep the integers small *)
RAdd(p, q) ==
    IF IsGarbage(p) \/ IsGarbage(q) THEN Garbage
    ELSE LET l == Lcm(p.d, q.d)
         IN  Rat(p.n * (l \div p.d) + q.n * (l \div q.d), l)

RMul(p, q) ==
    IF IsGarbage(p) \/ IsGarbage(q) THEN Garbage
    ELSE LET g == Gcd(Abs(p.n), q.d)
             h == Gcd(Abs(q.n), p.d)
         IN  Rat((p.n \div g) * (q.n \div h), (p.d \div h) * (q.d \div g))

RECURSIVE SumTo(_, _)
(* sum of the integers f[0..m], f a function on 0..m *)
SumTo(f, m) == IF m < 0 THEN 0 ELSE f[m] + SumTo(f, m - 1)

RECURSIVE RSumTo(_, _)
(* sum of the rationals f[0..m] *)
RSumTo(f, m) == IF m < 0 THEN RInt(0) ELSE RAdd(f[m], RSumTo(f, m - 1))

(* Python's sum(term(x, y) for x, y in d), the terms given as a sequence *)
RECURSIVE SumSeq(_)
SumSeq(s) == IF s = <<>> THEN 0 ELSE Head(s) + SumSeq(Tail(s))

----------------------------------------------------------------------------
(* least_squares_polynomial: assembling the normal equations. *)

(* sums_of_x with the powers shifted by one: range(1, 2 * N + 2) *)
sums_of_x_shifted(d, n) ==
    [p \in 0..(2 * n) |-> SumSeq([i \in 1..Len(d) |-> Pow(d[i][1], p + 1)])]

(* line 26: for each power [0, 2N] the sum of x ** p over the data *)
sums_of_x(d, n) ==
    [p \in 0..(2 * n) |-> SumSeq([i \in 1..Len(d) |-> Pow(d[i][1], p)])]

(* MatrixA indexing the sums by the row alone: sums_of_x[i + i] *)
MatrixA_row_only(d, n) ==
    LET S == sums_of_x(d, n)
    IN  [i \in 0..n |-> [j \in 0..n |-> S[i + i]]]

(* lines 29-32: A[i][j] = sums_of_x[i + j], an (N+1)x(N+1) array *)
MatrixA(d, n) ==
    LET S == sums_of_x(d, n)
    IN  [i \in 0..n |-> [j \in 0..n |-> S[i + j]]]

(* sums_of_y without the factor y: sum(x ** p for x, y in data) *)
sums_of_y_without_y(d, n) ==
    [p \in 0..n |-> SumSeq([i \in 1..Len(d) |-> Pow(d[i][1], p)])]

(* line 35: for each power [0, N] the sum of y * x ** p over the data *)
sums_of_y(d, n) ==
    [p \in 0..n |-> SumSeq([i \in 1..Len(d) |-> d[i][2] * Pow(d[i][1], p)])]

(* lines 38-40: B[i][0] = sums_of_y[i], an (N+1)x1 array *)
VectorB(d, n) ==
    LET T == sums_of_y(d, n)
    IN  [i \in 0..n |-> T[i]]

----------------------------------------------------------------------------
(* numpy.linalg.inv (line 44). *)

(* M without row r and column c; M is n x n *)
Minor(M, n, r, c) ==
    [i \in 0..(n - 2) |-> [j \in 0..(n - 2) |->
        M[IF i < r THEN i ELSE i + 1][IF j < c THEN j ELSE j + 1]]]

RECURSIVE Det(_, _)
(* determinant of the n x n integer matrix M, by expansion along row 0 *)
Det(M, n) ==
    IF n = 0 THEN 1
    ELSE IF n = 1 THEN M[0][0]
    ELSE SumTo([j \in 0..(n - 1) |->
                    (IF j % 2 = 0 THEN 1 ELSE 0 - 1) * M[0][j]
                        * Det(Minor(M, n, 0, j), n - 1)], n - 1)

Cofactor(M, n, r, c) ==
    (IF (r + c) % 2 = 0 THEN 1 ELSE 0 - 1) * Det(Minor(M, n, r, c), n - 1)

(* the inverse of a non-singular M: adj(M) / det(M) *)
ExactInverse(M, n) ==
    LET dt == Det(M, n)
    IN  [i \in 0..(n - 1) |-> [j \in 0..(n - 1) |-> Rat(Cofactor(M, n, j, i), dt)]]

RECURSIVE IsPow2(_)
IsPow2(m) == m = 1 \/ (m > 1 /\ m % 2 = 0 /\ IsPow2(m \div 2))

(* a / b (b # 0) is a dyadic rational: the float64 quotient is exact *)
Dyadic(a, b) == IsPow2(Abs(b) \div Gcd(Abs(a), Abs(b)))

(* exact quotient of integers, b # 0 dividing a *)
ExactDiv(a, b) ==
    (IF (a < 0) = (b < 0) THEN 1 ELSE 0 - 1) * (Abs(a) \div Abs(b))

(* partial pivoting: the first row of k..n-1 with the largest |M[i][k]| *)
PivotRow(M, k, n) ==
    CHOOSE p \in k..(n - 1) :
        /\ \A i \in k..(n - 1) : Abs(M[i][k]) <= Abs(M[p][k])
        /\ \A i \in k..(p - 1) : Abs(M[i][k]) < Abs(M[p][k])

SwapRows(M, k, p) ==
    [i \in DOMAIN M |-> IF i = k THEN M[p] ELSE IF i = p THEN M[k] ELSE M[i]]

RECURSIVE Getrf(_, _, _, _, _)
(* LU factorisation with partial pivoting of an n x n matrix, from column  *)
(* k on.  The entries of the active block are M[i][j] / d exactly          *)
(* (fraction-free elimination, d the previous pivot); R[i][j] tells        *)
(* whether entry (i, j) went through a rounded float64 operation.          *)
(* "ok": every pivot is non-zero.  "singular": a pivot is 0.0 whatever     *)
(* the rounding.  "rounding": a pivot is exactly 0 but was computed with   *)
(* rounding, so whether it is 0.0 depends on the build.                    *)
Getrf(M, R, d, k, n) ==
    IF k = n THEN "ok"
    ELSE
        LET p == PivotRow(M, k, n)
        IN  IF M[p][k] = 0
            THEN IF \E i \in k..(n - 1) : R[i][k] THEN "rounding" ELSE "singular"
            ELSE
                LET Ms == SwapRows(M, k, p)
                    Rs == SwapRows(R, k, p)
                    lr(i) == Rs[i][k] \/ Rs[k][k] \/ ~Dyadic(Ms[i][k], Ms[k][k])
                    M2 == [i \in 0..(n - 1) |-> [j \in 0..(n - 1) |->
                            IF i > k /\ j > k
                            THEN ExactDiv(Ms[k][k] * Ms[i][j] - Ms[i][k] * Ms[k][j], d)
                            ELSE Ms[i][j]]]
                    R2 == [i \in 0..(n - 1) |-> [j \in 0..(n - 1) |->
                            IF i > k /\ j > k
                            THEN IF \/ (Ms[i][k] = 0 /\ ~Rs[i][k])
                                    \/ (Ms[k][j] = 0 /\ ~Rs[k][j])
                                 THEN Rs[i][j]
                                 ELSE Rs[i][j] \/ lr(i) \/ Rs[k][j]
                            ELSE Rs[i][j]]]
                IN  Getrf(M2, R2, Ms[k][k], k + 1, n)

(* the possible results of numpy.linalg.inv on the n x n matrix M *)
linalg_inv(M, n) ==
    LET info == IF n = 0 THEN "ok"
                ELSE Getrf(M, [i \in 0..(n - 1) |-> [j \in 0..(n - 1) |-> FALSE]], 1, 0, n)
        raised == [status |-> "LinAlgError", inv |-> <<>>]
        junk == [status |-> "ok",
                 inv |-> [i \in 0..(n - 1) |-> [j \in 0..(n - 1) |-> Garbage]]]
    IN  IF info = "ok" THEN {[status |-> "ok", inv |-> ExactInverse(M, n)]}
        ELSE IF info = "singular" THEN {raised}
        ELSE {raised, junk}

(* pn_coefficients without its last entry: range(N) for range(N + 1) *)
pn_coefficients_short(Ainv, Bv, n) ==
    [i \in 0..(n - 1) |-> RSumTo([j \in 0..n |-> RMul(Ainv[i][j], RInt(Bv[j]))], n)]

(* lines 44-45: np.dot(inv(A), B) flattened, for A of shape (n+1)x(n+1) *)
pn_coefficients(Ainv, Bv, n) ==
    [i \in 0..n |-> RSumTo([j \in 0..n |-> RMul(Ainv[i][j], RInt(Bv[j]))], n)]

(* the possible results of least_squares_polynomial(d, n) *)
least_squares_polynomial(d, n) ==
    IF n + 1 < 0
    THEN \* line 29: np.empty with a negative dimension raises ValueError
         {[outcome |-> "ValueError", A |-> <<>>, B |-> <<>>, coeffs |-> <<>>]}
    ELSE
        LET Am == MatrixA(d, n)
            Bm == VectorB(d, n)
        IN  {[outcome |-> IF r.status = "ok" THEN "returned" ELSE r.status,
              A |-> Am,
              B |-> Bm,
              coeffs |-> IF r.status = "ok" THEN pn_coefficients(r.inv, Bm, n)
                         ELSE <<>>] : r \in linalg_inv(Am, n + 1)}

(* get_point enumerating the powers from 1: enumerate(..., 1) *)
get_point_from_one(c, x) ==
    LET n == Cardinality(DOMAIN c) - 1
    IN  RSumTo([p \in 0..n |-> RMul(c[p], RInt(Pow(x, p + 1)))], n)

(* line 75: sum(val * x ** p for p, val in enumerate(polynomial_coefficients)) *)
get_point(c, x) ==
    LET n == Cardinality(DOMAIN c) - 1
    IN  RSumTo([p \in 0..n |-> RMul(c[p], RInt(Pow(x, p)))], n)

----------------------------------------------------------------------------
(* The fitter and the evaluator as a state machine. *)

NoValue == Garbage

Init ==
    /\ data \in Datasets
    /\ N \in Orders
    /\ pc = "call"
    /\ A = <<>>
    /\ B = <<>>
    /\ outcome = "none"
    /\ coeffs = <<>>
    /\ evalX = 0
    /\ evalY = NoValue
    /\ polynomial_coefficients = <<>>
    /\ round_to = 0
    /\ fpc = "idle"
    /\ foutcome = "none"
    /\ y = <<>>

(* the caller runs least_squares_polynomial(data, N) *)
Fit ==
    /\ pc = "call"
    /\ \E r \in least_squares_polynomial(data, N) :
        /\ A' = r.A
        /\ B' = r.B
        /\ outcome' = r.outcome
        /\ coeffs' = r.coeffs
    /\ pc' = "done"
    /\ UNCHANGED <<data, N, evalX, evalY>>
    /\ UNCHANGED fmtVars

(* the caller runs get_point(coeffs, x) on a returned coefficient vector *)
GetPoint ==
    /\ pc = "done"
    /\ outcome = "returned"
    /\ \E x \in Xs :
        /\ evalX' = x
        /\ evalY' = get_point(coeffs, x)
    /\ pc' = "evaluated"
    /\ UNCHANGED <<data, N, A, B, outcome, coeffs>>
    /\ UNCHANGED fmtVars

Next == Fit \/ GetPoint

Spec == Init /\ [][Next]_vars

----------------------------------------------------------------------------
(* coefficients_to_string.                                                 *)
(*                                                                         *)
(* A coefficient is given as an integer number of thirds (k stands for     *)
(* k/3): no multiple of 1/3 lies halfway between two decimals, so          *)
(* round(val, round_to) is the nearest decimal and needs no tie rule.  A   *)
(* rounded value is an integer number m of units 10 ** -round_to; 0.0 and  *)
(* -0.0 are both m = 0 (both are falsy and both are >= 0).  A string is a  *)
(* sequence of one-character strings, so that y[4], y[:4] and y[6:] are    *)
(* what they are in Python (0-based there, 1-based here).                  *)

MaxLen == 3        \* at most this many coefficients
MaxCoef == 4       \* coefficients range over -MaxCoef/3 .. MaxCoef/3
round_to_default == 4

CoefVals == (0 - MaxCoef)..MaxCoef
RoundTos == {0, 1, round_to_default}
CoefVectors == UNION {[0..(m - 1) -> CoefVals] : m \in 0..MaxLen}

(* round(k/3, r), in units of 10 ** -r *)
round(k, r) == (2 * k * Pow(10, r) + 3) \div 6

Digit(dg) == <<"0", "1", "2", "3", "4", "5", "6", "7", "8", "9">>[dg + 1]

RECURSIVE IntDigits(_)
(* str(n) for an integer n >= 0 *)
IntDigits(n) ==
    IF n < 10 THEN <<Digit(n)>> ELSE Append(IntDigits(n \div 10), Digit(n % 10))

RECURSIVE FracDigits(_, _)
(* the r digits of f / 10 ** r, 0 <= f < 10 ** r, without trailing zeros *)
FracDigits(f, r) ==
    IF r = 0 \/ f = 0 THEN <<>>
    ELSE <<Digit(f \div Pow(10, r - 1))>> \o FracDigits(f % Pow(10, r - 1), r - 1)

(* str(abs(v)) for the float v = m / 10 ** r: repr of a float keeps one    *)
(* digit after the point at least ("2.0", "0.3333")                        *)
str_abs(m, r) ==
    LET a == Abs(m)
        frac == FracDigits(a % Pow(10, r), r)
    IN  IntDigits(a \div Pow(10, r)) \o <<".">> \o (IF frac = <<>> THEN <<"0">> ELSE frac)

(* lines 55, 60, 66: " + " if val >= 0 else " - " *)
sign(m) == IF m >= 0 THEN <<" ", "+", " ">> ELSE <<" ", "-", " ">>

RECURSIVE rest_of_terms(_, _, _, _, _)
(* lines 64-67: the terms of power p..len-1 appended to yy *)
rest_of_terms(C, r, p, len, yy) ==
    IF p >= len THEN yy
    ELSE rest_of_terms(C, r, p + 1, len,
            IF C[p] # 0
            THEN yy \o sign(C[p]) \o str_abs(C[p], r) \o <<"x", "^">> \o IntDigits(p)
            ELSE yy)

(* delete_first_sign keeping the space after the sign: y[5:] for y[6:] *)
delete_first_sign_keeps_space(yy) ==
    SubSeq(yy, 1, IF yy[5] = "-" THEN 5 ELSE 4) \o SubSeq(yy, 6, Len(yy))

(* line 70: y[:(5 if y[4] == "-" else 4)] + y[6:], for len(y) > 4 *)
delete_first_sign(yy) ==
    SubSeq(yy, 1, IF yy[5] = "-" THEN 5 ELSE 4) \o SubSeq(yy, 7, Len(yy))

(* the result of coefficients_to_string(c, r), c a 0-based vector *)
coefficients_to_string(c, r) ==
    LET len == Cardinality(DOMAIN c)
        C == [i \in 0..(len - 1) |-> round(c[i], r)]
        raised == [outcome |-> "IndexError", y |-> <<>>]
        y0 == <<"y", " ", "=">>
    IN  IF len = 0 THEN raised                        \* line 54: C[0]
        ELSE
            LET y1 == IF C[0] # 0 \/ len = 1
                      THEN y0 \o sign(C[0]) \o str_abs(C[0], r)
                      ELSE y0
            IN  IF len = 1 THEN raised                \* line 59: C[1]
                ELSE
                    LET y2 == IF C[1] # 0
                              THEN y1 \o sign(C[1]) \o str_abs(C[1], r) \o <<"x">>
                              ELSE y1
                        y3 == rest_of_terms(C, r, 2, len, y2)
                    IN  IF Len(y3) <= 4 THEN raised   \* line 70: y[4]
                        ELSE [outcome |-> "returned", y |-> delete_first_sign(y3)]

InitFormat ==
    /\ polynomial_coefficients \in CoefVectors
    /\ round_to \in RoundTos
    /\ fpc = "call"
    /\ foutcome = "none"
    /\ y = <<>>
    /\ data = <<>>
    /\ N = 0
    /\ pc = "idle"
    /\ A = <<>>
    /\ B = <<>>
    /\ outcome = "none"
    /\ coeffs = <<>>
    /\ evalX = 0
    /\ evalY = NoValue

(* the caller runs coefficients_to_string(polynomial_coefficients, round_to) *)
Format ==
    /\ fpc = "call"
    /\ LET res == coefficients_to_string(polynomial_coefficients, round_to)
       IN  /\ foutcome' = res.outcome
           /\ y' = res.y
    /\ fpc' = "done"
    /\ UNCHANGED <<polynomial_coefficients, round_to>>
    /\ UNCHANGED fitVars

NextFormat == Format

SpecFormat == InitFormat /\ [][NextFormat]_vars

----------------------------------------------------------------------------
(* Properties of the fitter and the evaluator (specification Spec). *)

Fitted == pc \in {"done", "evaluated"}
NumPoints == Len(data)
DistinctX == Cardinality({data[i][1] : i \in 1..Len(data)})

RNeg(q) == IF IsGarbage(q) THEN Garbage ELSE [n |-> 0 - q.n, d |-> q.d]
RLeq(p, q) ==
    /\ ~IsGarbage(p)
    /\ ~IsGarbage(q)
    /\ LET l == Lcm(p.d, q.d)
       IN  p.n * (l \div p.d) <= q.n * (l \div q.d)

(* y_i - P_c(x_i) for the point pt *)
Residual(c, pt) == RAdd(RInt(pt[2]), RNeg(get_point(c, pt[1])))

(* the sum over all points of (y_i - P_c(x_i))^2 *)
SquaredResiduals(c) ==
    RSumTo([i \in 0..(NumPoints - 1) |->
                LET res == Residual(c, data[i + 1]) IN RMul(res, res)],
           NumPoints - 1)

(* the residuals of all points, 0-based *)
Residuals(c) == [i \in 0..(NumPoints - 1) |-> Residual(c, data[i + 1])]

(* the derivative of the squared residuals along coefficient p, halved and *)
(* negated: the sum over all points of (y_i - P_c(x_i)) * x_i^p, given the *)
(* residuals res                                                           *)
Gradient(res, p) ==
    RSumTo([i \in 0..(NumPoints - 1) |->
                RMul(res[i], RInt(Pow(data[i + 1][1], p)))],
           NumPoints - 1)

Steps == {RInt(1), Rat(0 - 1, 2)}

(* other coefficient vectors of the same length: one coefficient of c      *)
(* moved by a step, and the vectors with all entries equal to -1, 0 or 1   *)
Competitors(c) ==
    {[c EXCEPT ![p] = RAdd(c[p], st)] : p \in DOMAIN c, st \in Steps}
        \cup {[p \in DOMAIN c |-> RInt(v)] : v \in {0 - 1, 0, 1}}

C1_Case ==
    /\ pc = "done"
    /\ NumPoints >= 1
    /\ N >= 0
    /\ N + 1 <= NumPoints
    /\ DistinctX >= N + 1      \* A is non-singular

(* C1: for a non-empty point set and an order N with N + 1 <= number of    *)
(* points and a non-singular A, the fit returns a vector k at which the    *)
(* squared residuals are stationary (the normal equations, stated on the   *)
(* data) and that no competitor vector beats.                              *)
C1_MinimizesSquaredResiduals ==
    C1_Case =>
        /\ outcome = "returned"
        /\ Det(A, N + 1) # 0
        /\ LET res == Residuals(coeffs)
           IN  \A p \in 0..N : Gradient(res, p) = RInt(0)
        /\ LET least == SquaredResiduals(coeffs)
           IN  \A c \in Competitors(coeffs) : RLeq(least, SquaredResiduals(c))

C1_Witness ==
    /\ C1_Case
    /\ N = 1
    /\ NumPoints = 3
    /\ outcome = "returned"
    /\ SquaredResiduals(coeffs) # RInt(0)

C2_Case ==
    /\ Fitted
    /\ NumPoints >= 1
    /\ N = NumPoints - 1
    /\ DistinctX = NumPoints

(* C2: with pairwise distinct x-values and N = number of points - 1 the    *)
(* fit returns, and get_point of the returned vector at every input x_i is *)
(* y_i.                                                                    *)
C2_ExactInterpolation ==
    C2_Case =>
        /\ outcome = "returned"
        /\ pc = "done" =>
                \A i \in 1..NumPoints : get_point(coeffs, data[i][1]) = RInt(data[i][2])
        /\ pc = "evaluated" =>
                \A i \in 1..NumPoints : data[i][1] = evalX => evalY = RInt(data[i][2])

C2_Witness ==
    /\ C2_Case
    /\ NumPoints = 3
    /\ pc = "evaluated"
    /\ evalX = data[2][1]
    /\ evalY = RInt(1)
    /\ data[1][2] = 0

(* C3: for a non-empty point set and order 0 the fit returns one           *)
(* coefficient, the sum of the y-values divided by the number of points.   *)
C3_OrderZeroIsMean ==
    (Fitted /\ N = 0 /\ NumPoints >= 1) =>
        /\ outcome = "returned"
        /\ DOMAIN coeffs = {0}
        /\ coeffs[0] = Rat(SumSeq([i \in 1..NumPoints |-> data[i][2]]), NumPoints)

C3_Witness ==
    /\ Fitted
    /\ N = 0
    /\ NumPoints = 3
    /\ DistinctX = 3
    /\ outcome = "returned"
    /\ coeffs[0] = Rat(2, 3)

(* C4: whenever the fit returns a coefficient vector, the vector has       *)
(* exactly N + 1 entries, indexed by the powers 0..N.                      *)
C4_LengthIsOrderPlusOne ==
    (Fitted /\ outcome = "returned") => DOMAIN coeffs = 0..N

C4_Witness ==
    /\ Fitted
    /\ outcome = "returned"
    /\ N = 2
    /\ Cardinality(DOMAIN coeffs) = 3
    /\ ~IsGarbage(coeffs[2])
    /\ coeffs[2].n # 0

InvalidOrder == N < 0 \/ N + 1 > NumPoints

(* C5: called with an invalid order (negative, or order + 1 > number of    *)
(* points) the fit surfaces an error and never returns a coefficient       *)
(* vector.                                                                 *)
C5_InvalidOrderRaises ==
    (Fitted /\ NumPoints >= 1 /\ InvalidOrder) => outcome \in {"ValueError", "LinAlgError"}

(* C6: when A is singular - here for a valid order (N + 1 <= number of     *)
(* points) with duplicate x-values and at most N distinct ones - the fit   *)
(* surfaces a singularity error instead of returning a coefficient vector. *)
C6_SingularRaises ==
    (Fitted /\ N >= 0 /\ N + 1 <= NumPoints /\ DistinctX <= N) =>
        /\ Det(A, N + 1) = 0
        /\ outcome = "LinAlgError"

(* C10: for any point set and any order N >= 0 the assembled A is an       *)
(* (N+1)x(N+1) matrix with A[i][j] the sum over the points of x^(i+j),     *)
(* hence symmetric, and A[0][0] is the number of points.                   *)
C10_MatrixSymmetric ==
    (Fitted /\ N >= 0) =>
        /\ DOMAIN A = 0..N
        /\ \A i \in 0..N : DOMAIN A[i] = 0..N
        /\ \A i, j \in 0..N :
            /\ A[i][j] = SumSeq([q \in 1..NumPoints |-> Pow(data[q][1], i + j)])
            /\ A[i][j] = A[j][i]
        /\ A[0][0] = NumPoints

C10_Witness ==
    /\ Fitted
    /\ N = 2
    /\ NumPoints = 3
    /\ DistinctX = 3
    /\ A[0][1] # A[1][1]
    /\ A[1][2] = A[2][1]

----------------------------------------------------------------------------
(* Properties of the formatter (specification SpecFormat). *)

NumCoefs == Cardinality(DOMAIN polynomial_coefficients)
Rounded(p) == round(polynomial_coefficients[p], round_to)
Surviving == {p \in 0..(NumCoefs - 1) : Rounded(p) # 0}
FirstSurviving == CHOOSE p \in Surviving : \A q \in Surviving : p <= q

(* a term without its sign: the bare number, "{value}x" or "{value}x^{p}" *)
TermBody(p) ==
    str_abs(Rounded(p), round_to)
        \o (IF p = 0 THEN <<>>
            ELSE IF p = 1 THEN <<"x">>
            ELSE <<"x", "^">> \o IntDigits(p))

TermPrefix(p) ==
    IF p = FirstSurviving
    THEN IF Rounded(p) < 0 THEN <<"-">> ELSE <<>>
    ELSE IF Rounded(p) < 0 THEN <<" ", "-", " ">> ELSE <<" ", "+", " ">>

RECURSIVE JoinTerms(_)
(* the surviving terms of power p and above, in increasing power order *)
JoinTerms(p) ==
    IF p >= NumCoefs THEN <<>>
    ELSE (IF p \in Surviving THEN TermPrefix(p) \o TermBody(p) ELSE <<>>)
            \o JoinTerms(p + 1)

(* C7: for a vector of length >= 2 with a coefficient whose rounded value  *)
(* is non-zero, the result is "y = " followed by the surviving terms in    *)
(* increasing power order, the first with no prefix or "-" attached, the   *)
(* others prefixed " + " or " - " and showing the absolute value.          *)
C7_TermsRendered ==
    (fpc = "done" /\ NumCoefs >= 2 /\ Surviving # {}) =>
        /\ foutcome = "returned"
        /\ y = <<"y", " ", "=", " ">> \o JoinTerms(0)

C7_Witness ==
    /\ fpc = "done"
    /\ NumCoefs = 3
    /\ round_to = round_to_default
    /\ Surviving = {1, 2}
    /\ Rounded(1) < 0
    /\ Rounded(2) > 0
    /\ foutcome = "returned"
    /\ y[5] = "-"

(* C8: for a vector with exactly one coefficient the result is "y = "      *)
(* followed by the constant ("-" attached if negative), shown even when    *)
(* its rounded value is zero; no error is raised.                          *)
C8_SingleCoefficient ==
    (fpc = "done" /\ NumCoefs = 1) =>
        /\ foutcome = "returned"
        /\ y = <<"y", " ", "=", " ">>
                \o (IF Rounded(0) < 0 THEN <<"-">> ELSE <<>>)
                \o str_abs(Rounded(0), round_to)

(* C9: for a vector of length > 1 whose coefficients all round to zero the *)
(* formatter does not fail: it returns a string that starts "y =".         *)
C9_AllZeroDoesNotFail ==
    (fpc = "done" /\ NumCoefs > 1 /\ Surviving = {}) =>
        /\ foutcome = "returned"
        /\ Len(y) >= 3
        /\ SubSeq(y, 1, 3) = <<"y", " ", "=">>

====
